---- MODULE Spec2Model ----
(***************************************************************************)
(* Model of rag_backend.py: the persisted vector store (faiss.index,       *)
(* items.pkl, query_embeddings.pkl under vector_store/), its load, save    *)
(* and clear operations, and the two remote-service wrappers.              *)
(*                                                                         *)
(* The file system is modelled at the granularity of the calls the code    *)
(* makes: os.makedirs, open(..., 'wb') (which truncates), the write that   *)
(* follows it, os.path.exists, os.remove, shutil.rmtree (one unlink per    *)
(* entry, then rmdir).  A file is "absent", "partial" (opened for writing, *)
(* content not yet written: unreadable) or "data" (complete content).      *)
(***************************************************************************)
EXTENDS Integers, Sequences, FiniteSets, TLC

VARIABLES fs, last, prev, crashed, writer, reader, svc

vars == <<fs, last, prev, crashed, writer, reader, svc>>

----------------------------------------------------------------------------
(* Bounds of the model *)

MaxItems == 2
MaxNameLen == 2
MaxPage == 1

ItemIds == {"i1", "i2"}
Vectors == {"e1"}
Queries == {"q1"}

----------------------------------------------------------------------------
(* Constants of the program *)

VECTOR_STORE == "vector_store"
FAISS_INDEX == "faiss.index"
ITEMS_PICKLE == "items.pkl"
QUERY_EMBEDDINGS_CACHE == "query_embeddings.pkl"
embedding_vector_dimension == 384

\* The entries of the directory VECTOR_STORE.  Every path the code uses is
\* VECTOR_STORE itself or os.path.join(VECTOR_STORE, entry); the model names
\* the second kind by its entry.
StoreFiles == {FAISS_INDEX, ITEMS_PICKLE, QUERY_EMBEDDINGS_CACHE}

----------------------------------------------------------------------------
(* Values *)

\* faiss.IndexFlatL2: its dimension d and the number of vectors it holds.
IndexFlatL2(d) == [d |-> d, ntotal |-> 0]

Indexes == {[d |-> embedding_vector_dimension, ntotal |-> n] : n \in 0..MaxItems}

ItemLists == UNION {[1..n -> ItemIds] : n \in 0..MaxItems}

\* A query cache is a dict from query text to embedding.
EmptyCache == <<>>
Caches == UNION {[S -> Vectors] : S \in SUBSET Queries}

Absent == [st |-> "absent"]
Partial == [st |-> "partial"]
Data(v) == [st |-> "data", val |-> v]

NoStore == [dir |-> FALSE, files |-> [p \in StoreFiles |-> Absent]]

----------------------------------------------------------------------------
(* File-system calls *)

os_path_exists(f, p) ==
  IF p = VECTOR_STORE THEN f.dir ELSE f.dir /\ f.files[p].st # "absent"

os_makedirs(f) == [f EXCEPT !.dir = TRUE]

\* open(p, 'wb'): creates the file or truncates it.
open_wb(f, p) == [f EXCEPT !.files[p] = Partial]

\* The write and close that follow open_wb.
write_all(f, p, v) == [f EXCEPT !.files[p] = Data(v)]

\* One unlink.
os_remove(f, p) == [f EXCEPT !.files[p] = Absent]

\* shutil.rmtree once every entry is unlinked: the rmdir.
os_rmdir(f) == [f EXCEPT !.dir = FALSE]

Present(f) == {p \in StoreFiles : os_path_exists(f, p)}

----------------------------------------------------------------------------
(* save_stores *)

\* The calls save_stores makes, in order.
SaveSteps == 7

\* SaveStep with the item list pickled one element short of the index.
SaveStep_items_short(f, k, index, all_items, query_embeddings_cache) ==
  CASE k = 1 -> os_makedirs(f)
    [] k = 2 -> open_wb(f, FAISS_INDEX)
    [] k = 3 -> write_all(f, FAISS_INDEX, index)
    [] k = 4 -> open_wb(f, ITEMS_PICKLE)
    [] k = 5 -> write_all(f, ITEMS_PICKLE,
                          IF all_items = <<>> THEN all_items
                          ELSE SubSeq(all_items, 1, Len(all_items) - 1))
    [] k = 6 -> open_wb(f, QUERY_EMBEDDINGS_CACHE)
    [] k = 7 -> write_all(f, QUERY_EMBEDDINGS_CACHE, query_embeddings_cache)

\* The file system after the k-th call of save_stores(index, all_items,
\* query_embeddings_cache).
SaveStep(f, k, index, all_items, query_embeddings_cache) ==
  CASE k = 1 -> os_makedirs(f)
    [] k = 2 -> open_wb(f, FAISS_INDEX)
    [] k = 3 -> write_all(f, FAISS_INDEX, index)
    [] k = 4 -> open_wb(f, ITEMS_PICKLE)
    [] k = 5 -> write_all(f, ITEMS_PICKLE, all_items)
    [] k = 6 -> open_wb(f, QUERY_EMBEDDINGS_CACHE)
    [] k = 7 -> write_all(f, QUERY_EMBEDDINGS_CACHE, query_embeddings_cache)

\* The file system after the first n calls.
RECURSIVE SaveUpTo(_, _, _, _, _)
SaveUpTo(f, n, index, all_items, query_embeddings_cache) ==
  IF n = 0 THEN f
  ELSE SaveStep(SaveUpTo(f, n - 1, index, all_items, query_embeddings_cache),
                n, index, all_items, query_embeddings_cache)

\* save_stores that returns before it writes the query cache.
save_stores_without_cache(f, index, all_items, query_embeddings_cache) ==
  SaveUpTo(f, 5, index, all_items, query_embeddings_cache)

save_stores(f, index, all_items, query_embeddings_cache) ==
  SaveUpTo(f, SaveSteps, index, all_items, query_embeddings_cache)

----------------------------------------------------------------------------
(* load_or_initialize_stores *)

\* The locals of a running load_or_initialize_stores and its position.
LoadStart ==
  [pc |-> "check_index", index |-> IndexFlatL2(0), all_items |-> <<>>,
   query_embeddings_cache |-> EmptyCache]

LoadEnded(r) == r.pc \in {"return", "raise"}

\* One call of load_or_initialize_stores against the file system f.
LoadStep(f, r) ==
  CASE r.pc = "check_index" ->
         IF os_path_exists(f, FAISS_INDEX)
         THEN [r EXCEPT !.pc = "read_index"]
         ELSE [r EXCEPT !.pc = "check_cache",
                        !.index = IndexFlatL2(embedding_vector_dimension),
                        !.all_items = <<>>]
    [] r.pc = "read_index" ->
         \* faiss.read_index raises on a missing or incomplete file.
         IF f.dir /\ f.files[FAISS_INDEX].st = "data"
         THEN [r EXCEPT !.pc = "read_items", !.index = f.files[FAISS_INDEX].val]
         ELSE [r EXCEPT !.pc = "raise"]
    [] r.pc = "read_items" ->
         \* open raises FileNotFoundError, pickle.load raises on an incomplete file.
         IF f.dir /\ f.files[ITEMS_PICKLE].st = "data"
         THEN [r EXCEPT !.pc = "check_cache", !.all_items = f.files[ITEMS_PICKLE].val]
         ELSE [r EXCEPT !.pc = "raise"]
    [] r.pc = "check_cache" ->
         IF os_path_exists(f, QUERY_EMBEDDINGS_CACHE)
         THEN [r EXCEPT !.pc = "read_cache"]
         ELSE [r EXCEPT !.pc = "return", !.query_embeddings_cache = EmptyCache]
    [] r.pc = "read_cache" ->
         IF f.dir /\ f.files[QUERY_EMBEDDINGS_CACHE].st = "data"
         THEN [r EXCEPT !.pc = "return",
                        !.query_embeddings_cache = f.files[QUERY_EMBEDDINGS_CACHE].val]
         ELSE [r EXCEPT !.pc = "raise"]

RECURSIVE LoadRun(_, _)
LoadRun(f, r) == IF LoadEnded(r) THEN r ELSE LoadRun(f, LoadStep(f, r))

\* The whole call with nothing else touching the file system.
load_or_initialize_stores(f) == LoadRun(f, LoadStart)

----------------------------------------------------------------------------
(* clear_vector_store, clear_history, create_directories *)

\* shutil.rmtree(VECTOR_STORE) run to its end.
shutil_rmtree(f) == os_rmdir([f EXCEPT !.files = [p \in StoreFiles |-> Absent]])

\* os.remove raises FileNotFoundError on a missing file.
os_remove_raises(f, p) == ~os_path_exists(f, p)

\* try: body / except Exception: logger.error(...): the exception is logged
\* and the function returns normally.
try_except(body) == [fs |-> body.fs, raised |-> FALSE]

\* clear_vector_store that removes the index file instead of the directory.
clear_vector_store_index_only(f) ==
  try_except(IF os_path_exists(f, VECTOR_STORE)
             THEN [fs |-> os_remove(f, FAISS_INDEX), raised |-> FALSE]
             ELSE [fs |-> f, raised |-> FALSE])

\* The result of a call: the file system it leaves and whether it raised.
clear_vector_store(f) ==
  try_except(IF os_path_exists(f, VECTOR_STORE)
             THEN [fs |-> shutil_rmtree(f), raised |-> FALSE]
             ELSE [fs |-> f, raised |-> FALSE])

\* clear_history that removes the item list instead of the query cache.
clear_history_wrong_file(f) ==
  try_except(IF os_path_exists(f, ITEMS_PICKLE)
             THEN [fs |-> os_remove(f, ITEMS_PICKLE), raised |-> FALSE]
             ELSE [fs |-> f, raised |-> FALSE])

\* clear_history with neither the exists test nor the try.
clear_history_unguarded(f) ==
  [fs |-> os_remove(f, QUERY_EMBEDDINGS_CACHE),
   raised |-> os_remove_raises(f, QUERY_EMBEDDINGS_CACHE)]

clear_history(f) ==
  try_except(IF os_path_exists(f, QUERY_EMBEDDINGS_CACHE)
             THEN [fs |-> os_remove(f, QUERY_EMBEDDINGS_CACHE),
                   raised |-> os_remove_raises(f, QUERY_EMBEDDINGS_CACHE)]
             ELSE [fs |-> f, raised |-> FALSE])

\* os.makedirs(VECTOR_STORE, exist_ok=True); the data/ directories hold no
\* part of the persisted snapshot.
create_directories(f) == os_makedirs(f)

----------------------------------------------------------------------------
(* Strings, as sequences of characters *)

Digits == <<"0", "1", "2", "3", "4", "5", "6", "7", "8", "9">>

\* str(n) for n >= 0.
RECURSIVE Dec(_)
Dec(n) == IF n < 10 THEN <<Digits[n + 1]>> ELSE Dec(n \div 10) \o <<Digits[(n % 10) + 1]>>

\* f"{n:03d}"
Dec03(n) ==
  LET d == Dec(n) IN
  IF Len(d) >= 3 THEN d ELSE [i \in 1..(3 - Len(d)) |-> "0"] \o d

\* The positions of character c in s.
Positions(s, c) == {i \in 1..Len(s) : s[i] = c}

Max(S) == CHOOSE x \in S : \A y \in S : y <= x
Min(S) == CHOOSE x \in S : \A y \in S : x <= y

\* os.path.basename(path)
os_path_basename(path) ==
  IF Positions(path, "/") = {} THEN path
  ELSE SubSeq(path, Max(Positions(path, "/")) + 1, Len(path))

\* s.split(sep)[0]
split_first(s, sep) ==
  IF Positions(s, sep) = {} THEN s
  ELSE SubSeq(s, 1, Min(Positions(s, sep)) - 1)

\* os.path.join(BASE_DIR, sub, name) and f"{BASE_DIR}/{sub}/{name}"
BASE_DIR == <<"d", "a", "t", "a">>
os_path_join(dir, sub, name) == dir \o <<"/">> \o sub \o <<"/">> \o name

----------------------------------------------------------------------------
(* Ingestion: the items process_pdf appends for an uploaded file *)

\* Characters of an uploaded file's name.
Alphabet == {"r", "_"}
FileNames == UNION {[1..n -> Alphabet] : n \in 1..MaxNameLen}
Pages == 0..MaxPage
ItemTypes == {"text", "table", "image", "page"}

\* filepath = os.path.join(BASE_DIR, uploaded_file.name)
process_pdf_filepath(name) == BASE_DIR \o <<"/">> \o name

process_tables_item(filepath, page_num, table_idx) ==
  [page |-> page_num, type |-> "table", text |-> "table_text",
   path |-> os_path_join(BASE_DIR, <<"t", "a", "b", "l", "e", "s">>,
              os_path_basename(filepath) \o <<"_", "t", "a", "b", "l", "e", "_">>
                \o Dec(page_num) \o <<"_">> \o Dec(table_idx) \o <<".", "t", "x", "t">>),
   raw_table |-> "records"]

process_text_chunks_item(filepath, page_num, i) ==
  [page |-> page_num, type |-> "text", text |-> "chunk",
   path |-> os_path_join(BASE_DIR, <<"t", "e", "x", "t">>,
              os_path_basename(filepath) \o <<"_", "t", "e", "x", "t", "_">>
                \o Dec(page_num) \o <<"_">> \o Dec(i) \o <<".", "t", "x", "t">>)]

process_images_item(filepath, page_num, idx, xref) ==
  [page |-> page_num, type |-> "image",
   path |-> os_path_join(BASE_DIR, <<"i", "m", "a", "g", "e", "s">>,
              os_path_basename(filepath) \o <<"_", "i", "m", "a", "g", "e", "_">>
                \o Dec(page_num) \o <<"_">> \o Dec(idx) \o <<"_">> \o Dec(xref)
                \o <<".", "p", "n", "g">>),
   image |-> "base64"]

process_page_images_item(filepath, page_num) ==
  [page |-> page_num, type |-> "page",
   path |-> os_path_join(BASE_DIR, <<"p", "a", "g", "e", "_", "i", "m", "a", "g", "e", "s">>,
              <<"p", "a", "g", "e", "_">> \o Dec03(page_num) \o <<".", "p", "n", "g">>),
   image |-> "base64"]

\* Where a grounding item comes from: an uploaded file's page, or a caller
\* that passes a dict without the keys the ingestion functions set.
Origins ==
  [kind : {"ingested"}, name : FileNames, page : Pages, type : ItemTypes]
    \cup {[kind |-> "malformed"]}

ItemOf(o) ==
  IF o.kind = "malformed" THEN [page |-> 0, type |-> "text"]
  ELSE LET filepath == process_pdf_filepath(o.name) IN
       CASE o.type = "table" -> process_tables_item(filepath, o.page, 0)
         [] o.type = "text" -> process_text_chunks_item(filepath, o.page, 0)
         [] o.type = "image" -> process_images_item(filepath, o.page, 0, 1)
         [] o.type = "page" -> process_page_images_item(filepath, o.page)

\* The grounding lists a retrieval hands over: up to two items.
GroundingLists ==
  {<<>>} \cup {<<a>> : a \in Origins} \cup {<<a, b>> : a \in Origins, b \in Origins}

----------------------------------------------------------------------------
(* generate_multimodal_embeddings *)

\* What client.invoke_model does: it answers, raises botocore's ClientError,
\* or raises another exception (no endpoint, no credentials, a bad body).
EmbedOutcomes == {"ok", "ClientError", "OtherError"}

Prompts == {"None", "", "query"}
Images == {"None", "base64"}

\* Python's "not x" on None or a string.
Falsy(x) == x \in {"None", ""}

generate_multimodal_embeddings(prompt, image, outcome, embedding) ==
  IF Falsy(prompt) /\ Falsy(image)
  THEN [kind |-> "raise", value |-> "ValueError"]
  ELSE CASE outcome = "ok" -> [kind |-> "return", value |-> embedding]
         [] outcome = "ClientError" -> [kind |-> "return", value |-> "None"]
         [] outcome = "OtherError" -> [kind |-> "raise", value |-> "OtherError"]

----------------------------------------------------------------------------
(* invoke_claude_3_multimodal *)

\* What ChatBedrock(...).invoke does.
GenerateOutcomes == {"ok", "ClientError", "OtherError"}

SourcePrefix == <<"[", "S", "o", "u", "r", "c", "e", ":", " ">>
PagePrefix == <<",", " ", "p", "a", "g", "e", " ">>

\* item[key] raises KeyError on a missing key.
HasKeys(item, keys) == keys \subseteq DOMAIN item

\* source_info of one item.
source_info(item) ==
  LET source_file == split_first(os_path_basename(item.path), "_") IN
  SourcePrefix \o source_file \o PagePrefix \o Dec(item.page + 1) \o <<"]">>

\* The keys one pass of the loop reads.
KeysRead(item) ==
  {"path", "page", "type"}
    \cup (IF "type" \in DOMAIN item /\ item.type \in {"text", "table"} THEN {"text"} ELSE {})
    \cup (IF "type" \in DOMAIN item /\ item.type \in {"image", "page"} THEN {"image"} ELSE {})

\* The blocks one pass of the loop appends to message_content.
ContentOf(item) ==
  CASE item.type = "text" ->
         <<[text |-> <<"Text content: ", item.text, source_info(item)>>]>>
    [] item.type = "table" ->
         <<[text |-> <<"Table content: ", item.text, source_info(item)>>]>>
    [] item.type \in {"image", "page"} ->
         <<[image |-> [format |-> "png", bytes |-> item.image]],
           [text |-> <<"[Image reference: ", source_info(item)>>]>>
    [] OTHER -> <<>>

RECURSIVE MessageContent(_)
MessageContent(items) ==
  IF items = <<>> THEN <<>>
  ELSE ContentOf(Head(items)) \o MessageContent(Tail(items))

\* The body of the try: the exception it ends with ("none": it returns
\* response.content).
InvokeBody(matched_items, outcome) ==
  IF \E k \in 1..Len(matched_items) : ~HasKeys(matched_items[k], KeysRead(matched_items[k]))
  THEN [exc |-> "KeyError", content |-> "none"]
  ELSE IF outcome # "ok"
  THEN [exc |-> outcome, content |-> "none"]
  ELSE [exc |-> "none", content |-> "answer"]

\* invoke_claude_3_multimodal that lets the exception out.
invoke_claude_3_multimodal_no_except(matched_items, outcome) ==
  LET body == InvokeBody(matched_items, outcome) IN
  IF body.exc = "none"
  THEN [kind |-> "return", value |-> [answer |-> body.content]]
  ELSE [kind |-> "raise", value |-> [exception |-> body.exc]]

invoke_claude_3_multimodal(matched_items, outcome) ==
  LET body == InvokeBody(matched_items, outcome) IN
  IF body.exc = "none"
  THEN [kind |-> "return", value |-> [answer |-> body.content]]
  ELSE [kind |-> "return", value |-> [error_message |-> body.exc]]

----------------------------------------------------------------------------
(* State *)

\* What a caller may pass to save_stores: an index and an item list built in
\* lockstep, and a query cache.
SaveArgs ==
  {a \in [index : Indexes, all_items : ItemLists, query_embeddings_cache : Caches] :
     a.index.ntotal = Len(a.all_items)}

Idle == [pc |-> "idle"]
NoCall == [op |-> "none"]

\* What a load or a clear remembers of the call before it: its name, the
\* arguments of a save, the file system a clear started from.  The other
\* calls remember the name alone.
Summary(l) ==
  CASE l.op = "save_stores" -> [op |-> l.op, arg |-> l.arg]
    [] l.op \in {"clear_vector_store", "clear_history"} -> [op |-> l.op, before |-> l.before]
    [] OTHER -> [op |-> l.op]

Init ==
  /\ fs = NoStore
  /\ last = NoCall
  /\ prev = NoCall
  /\ crashed = FALSE
  /\ writer = Idle
  /\ reader = Idle
  /\ svc = NoCall

----------------------------------------------------------------------------
(* One process, one call at a time (the Streamlit session) *)

Sequential == UNCHANGED <<writer, reader, svc>>

CreateDirectories ==
  /\ fs' = create_directories(fs)
  /\ last' = [op |-> "create_directories"]
  /\ prev' = [op |-> last.op]
  /\ UNCHANGED crashed
  /\ Sequential

SaveStores ==
  \E a \in SaveArgs :
    /\ fs' = save_stores(fs, a.index, a.all_items, a.query_embeddings_cache)
    /\ last' = [op |-> "save_stores", arg |-> a]
    /\ prev' = [op |-> last.op]
    /\ UNCHANGED crashed
    /\ Sequential

\* The process is killed inside save_stores, after k of its calls.
SaveStoresKilled ==
  /\ fs' \in {SaveUpTo(fs, k, a.index, a.all_items, a.query_embeddings_cache) :
                a \in SaveArgs, k \in 1..(SaveSteps - 1)}
  /\ last' = [op |-> "killed"]
  /\ prev' = [op |-> last.op]
  /\ crashed' = TRUE
  /\ Sequential

LoadOrInitializeStores ==
  /\ last' = [op |-> "load_or_initialize_stores", before |-> fs,
              ret |-> load_or_initialize_stores(fs)]
  /\ prev' = Summary(last)
  /\ UNCHANGED <<fs, crashed>>
  /\ Sequential

ClearVectorStore ==
  /\ fs' = clear_vector_store(fs).fs
  /\ last' = [op |-> "clear_vector_store", before |-> fs,
              raised |-> clear_vector_store(fs).raised]
  /\ prev' = Summary(last)
  /\ UNCHANGED crashed
  /\ Sequential

\* The process is killed inside shutil.rmtree, which unlinks the entries in
\* directory order: any set of them may be gone, the directory is not.
ClearVectorStoreKilled ==
  /\ os_path_exists(fs, VECTOR_STORE)
  /\ \E gone \in SUBSET Present(fs) :
       fs' = [fs EXCEPT !.files = [p \in StoreFiles |->
                                     IF p \in gone THEN Absent ELSE fs.files[p]]]
  /\ last' = [op |-> "killed"]
  /\ prev' = [op |-> last.op]
  /\ crashed' = TRUE
  /\ Sequential

ClearHistory ==
  /\ fs' = clear_history(fs).fs
  /\ last' = [op |-> "clear_history", before |-> fs,
              raised |-> clear_history(fs).raised]
  /\ prev' = Summary(last)
  /\ UNCHANGED crashed
  /\ Sequential

Next ==
  \/ CreateDirectories
  \/ SaveStores
  \/ SaveStoresKilled
  \/ LoadOrInitializeStores
  \/ ClearVectorStore
  \/ ClearVectorStoreKilled
  \/ ClearHistory

Spec == Init /\ [][Next]_vars

----------------------------------------------------------------------------
(* A writing process and a reading process on the same vector_store: each   *)
(* step is one file-system call.                                            *)

Concurrent == UNCHANGED <<last, prev, svc>>

WriterSaveBegin ==
  /\ writer.pc = "idle"
  /\ \E a \in SaveArgs : writer' = [pc |-> "save_stores", k |-> 0, arg |-> a]
  /\ UNCHANGED <<fs, reader, crashed>>
  /\ Concurrent

WriterSaveStep ==
  /\ writer.pc = "save_stores"
  /\ fs' = SaveStep(fs, writer.k + 1, writer.arg.index, writer.arg.all_items,
                    writer.arg.query_embeddings_cache)
  /\ writer' = IF writer.k + 1 = SaveSteps THEN Idle ELSE [writer EXCEPT !.k = @ + 1]
  /\ UNCHANGED <<reader, crashed>>
  /\ Concurrent

\* clear_vector_store: the exists test, then rmtree or nothing.
WriterClearBegin ==
  /\ writer.pc = "idle"
  /\ writer' = IF os_path_exists(fs, VECTOR_STORE) THEN [pc |-> "rmtree"] ELSE Idle
  /\ UNCHANGED <<fs, reader, crashed>>
  /\ Concurrent

WriterUnlink ==
  /\ writer.pc = "rmtree"
  /\ \E p \in Present(fs) : fs' = os_remove(fs, p)
  /\ UNCHANGED <<writer, reader, crashed>>
  /\ Concurrent

WriterRmdir ==
  /\ writer.pc = "rmtree"
  /\ Present(fs) = {}
  /\ fs' = os_rmdir(fs)
  /\ writer' = Idle
  /\ UNCHANGED <<reader, crashed>>
  /\ Concurrent

WriterClearHistory ==
  /\ writer.pc = "idle"
  /\ fs' = clear_history(fs).fs
  /\ UNCHANGED <<writer, reader, crashed>>
  /\ Concurrent

WriterKilled ==
  /\ writer.pc # "idle"
  /\ writer' = Idle
  /\ crashed' = TRUE
  /\ UNCHANGED <<fs, reader>>
  /\ Concurrent

ReaderLoadBegin ==
  /\ reader.pc = "idle" \/ LoadEnded(reader)
  /\ reader' = LoadStart
  /\ UNCHANGED <<fs, writer, crashed>>
  /\ Concurrent

ReaderLoadStep ==
  /\ reader.pc # "idle" /\ ~LoadEnded(reader)
  /\ reader' = LoadStep(fs, reader)
  /\ UNCHANGED <<fs, writer, crashed>>
  /\ Concurrent

NextConc ==
  \/ WriterSaveBegin
  \/ WriterSaveStep
  \/ WriterClearBegin
  \/ WriterUnlink
  \/ WriterRmdir
  \/ WriterClearHistory
  \/ WriterKilled
  \/ ReaderLoadBegin
  \/ ReaderLoadStep

SpecConc == Init /\ [][NextConc]_vars

----------------------------------------------------------------------------
(* The remote-service wrappers, each call on its own inputs *)

Service == UNCHANGED <<fs, last, prev, crashed, writer, reader>>

\* The calls to make: every input of either wrapper, with what the remote
\* service will do.
PendingCalls ==
  [op : {"call"}, fn : {"generate_multimodal_embeddings"}, prompt : Prompts,
   image : Images, outcome : EmbedOutcomes, embedding : Vectors]
    \cup [op : {"call"}, fn : {"invoke_claude_3_multimodal"},
          origins : GroundingLists, outcome : GenerateOutcomes]

InitSvc ==
  /\ fs = NoStore
  /\ last = NoCall
  /\ prev = NoCall
  /\ crashed = FALSE
  /\ writer = Idle
  /\ reader = Idle
  /\ svc \in PendingCalls

GenerateMultimodalEmbeddings ==
  /\ svc.op = "call" /\ svc.fn = "generate_multimodal_embeddings"
  /\ svc' = [op |-> "generate_multimodal_embeddings", prompt |-> svc.prompt,
             image |-> svc.image,
             called |-> ~(Falsy(svc.prompt) /\ Falsy(svc.image)),
             outcome |-> svc.outcome,
             ret |-> generate_multimodal_embeddings(svc.prompt, svc.image,
                                                    svc.outcome, svc.embedding)]
  /\ Service

InvokeClaude3Multimodal ==
  /\ svc.op = "call" /\ svc.fn = "invoke_claude_3_multimodal"
  /\ LET origins == svc.origins
         matched_items == [k \in 1..Len(origins) |-> ItemOf(origins[k])]
     IN  svc' = [op |-> "invoke_claude_3_multimodal", origins |-> origins,
                 outcome |-> svc.outcome,
                 failed |-> InvokeBody(matched_items, svc.outcome).exc # "none",
                 message_content |->
                   IF \A k \in 1..Len(origins) :
                        HasKeys(matched_items[k], KeysRead(matched_items[k]))
                   THEN MessageContent(matched_items) ELSE <<>>,
                 source_infos |->
                   [k \in 1..Len(origins) |->
                      IF HasKeys(matched_items[k], {"path", "page"})
                      THEN source_info(matched_items[k]) ELSE <<>>],
                 ret |-> invoke_claude_3_multimodal(matched_items, svc.outcome)]
  /\ Service

NextSvc ==
  \/ GenerateMultimodalEmbeddings
  \/ InvokeClaude3Multimodal

SpecSvc == InitSvc /\ [][NextSvc]_vars

----------------------------------------------------------------------------
(* Properties of the service wrappers *)

\* C7: generate_multimodal_embeddings either returns an embedding vector or
\* raises; when the embedding service call fails it raises.
C7_EmbeddingOrError ==
  svc.op = "generate_multimodal_embeddings" =>
    /\ svc.ret.kind = "raise" \/ (svc.ret.kind = "return" /\ svc.ret.value \in Vectors)
    /\ (svc.called /\ svc.outcome # "ok") => svc.ret.kind = "raise"

\* C8: invoke_claude_3_multimodal never raises: a failure while building the
\* request or calling the service comes back as an error-message value, and
\* a successful call returns the model's answer.
C8_GenerationNeverRaises ==
  svc.op = "invoke_claude_3_multimodal" =>
    /\ svc.ret.kind = "return"
    /\ svc.failed => DOMAIN svc.ret.value = {"error_message"}
    /\ ~svc.failed => svc.ret.value = [answer |-> "answer"]

C8_Witness ==
  /\ svc.op = "invoke_claude_3_multimodal"
  /\ svc.outcome = "OtherError"
  /\ Len(svc.origins) = 2
  /\ \A k \in 1..2 : svc.origins[k].kind = "ingested"
  /\ svc.ret = [kind |-> "return", value |-> [error_message |-> "OtherError"]]

\* C10: the citation label of every grounding item that ingestion produced
\* names the uploaded file and the item's page number counted from 1.
C10_CitationNamesSource ==
  svc.op = "invoke_claude_3_multimodal" =>
    \A k \in 1..Len(svc.origins) :
      svc.origins[k].kind = "ingested" =>
        svc.source_infos[k] =
          SourcePrefix \o svc.origins[k].name \o PagePrefix
            \o Dec(svc.origins[k].page + 1) \o <<"]">>

----------------------------------------------------------------------------
(* Properties of the persisted snapshot *)

Loaded == last.op = "load_or_initialize_stores"

HasData(f, p) == f.dir /\ f.files[p].st = "data"

\* C1: a load that runs while a save is running, or after a save was cut
\* short, never returns an index and an item list of different sizes.
C1_ReaderNeverSeesMismatch ==
  reader.pc = "return" => reader.index.ntotal = Len(reader.all_items)

\* C2: load returns the fresh empty index and item list when both artifacts
\* are absent, and raises when exactly one of the two is present.
C2_PartialPresenceRaises ==
  Loaded =>
    LET hasIndex == os_path_exists(last.before, FAISS_INDEX)
        hasItems == os_path_exists(last.before, ITEMS_PICKLE)
    IN  /\ (~hasIndex /\ ~hasItems) =>
             /\ last.ret.index = IndexFlatL2(embedding_vector_dimension)
             /\ last.ret.all_items = <<>>
        /\ (hasIndex # hasItems) => last.ret.pc = "raise"

\* C3: a completed save of a non-empty aligned state, immediately followed by
\* a load, returns an index of the saved size, the saved item list and the
\* saved query cache.
C3_SaveLoadRoundTrip ==
  (Loaded /\ prev.op = "save_stores" /\ Len(prev.arg.all_items) > 0) =>
    /\ last.ret.pc = "return"
    /\ last.ret.index.ntotal = prev.arg.index.ntotal
    /\ last.ret.all_items = prev.arg.all_items
    /\ last.ret.query_embeddings_cache = prev.arg.query_embeddings_cache

C3_Witness ==
  /\ Loaded /\ prev.op = "save_stores"
  /\ Len(prev.arg.all_items) = MaxItems
  /\ prev.arg.query_embeddings_cache # EmptyCache
  /\ last.ret.pc = "return"
  /\ last.ret.all_items = prev.arg.all_items

\* C4: clear_vector_store followed by load returns an empty index of dimension
\* 384, an empty item list and an empty query cache, whatever was persisted.
C4_ClearThenLoadIsFresh ==
  (Loaded /\ prev.op = "clear_vector_store") =>
    /\ last.ret.pc = "return"
    /\ last.ret.index = [d |-> 384, ntotal |-> 0]
    /\ last.ret.all_items = <<>>
    /\ last.ret.query_embeddings_cache = EmptyCache

C4_Witness ==
  /\ Loaded /\ prev.op = "clear_vector_store"
  /\ HasData(prev.before, FAISS_INDEX) /\ prev.before.files[FAISS_INDEX].val.ntotal > 0
  /\ HasData(prev.before, ITEMS_PICKLE)
  /\ HasData(prev.before, QUERY_EMBEDDINGS_CACHE)
  /\ prev.before.files[QUERY_EMBEDDINGS_CACHE].val # EmptyCache
  /\ last.ret.pc = "return"

\* C5: on a snapshot holding index and items, clear_history leaves the index
\* and item-list artifacts as they were and removes the query-cache artifact;
\* the load that follows returns that index, those items and an empty cache.
C5_ClearHistoryKeepsIndexAndItems ==
  (/\ Loaded /\ prev.op = "clear_history"
   /\ HasData(prev.before, FAISS_INDEX) /\ HasData(prev.before, ITEMS_PICKLE)) =>
    /\ last.before.files[FAISS_INDEX] = prev.before.files[FAISS_INDEX]
    /\ last.before.files[ITEMS_PICKLE] = prev.before.files[ITEMS_PICKLE]
    /\ last.before.files[QUERY_EMBEDDINGS_CACHE] = Absent
    /\ last.ret.pc = "return"
    /\ last.ret.index = prev.before.files[FAISS_INDEX].val
    /\ last.ret.all_items = prev.before.files[ITEMS_PICKLE].val
    /\ last.ret.query_embeddings_cache = EmptyCache

C5_Witness ==
  /\ Loaded /\ prev.op = "clear_history"
  /\ HasData(prev.before, FAISS_INDEX) /\ HasData(prev.before, ITEMS_PICKLE)
  /\ Len(prev.before.files[ITEMS_PICKLE].val) > 0
  /\ HasData(prev.before, QUERY_EMBEDDINGS_CACHE)
  /\ prev.before.files[QUERY_EMBEDDINGS_CACHE].val # EmptyCache
  /\ last.ret.all_items = prev.before.files[ITEMS_PICKLE].val

\* C6: after completed saves (each of an aligned index and item list) and
\* clears only, every load that returns gives an index and an item list of
\* the same size.
C6_LoadedPairAligned ==
  (~crashed /\ Loaded /\ last.ret.pc = "return") =>
    last.ret.index.ntotal = Len(last.ret.all_items)

C6_Witness ==
  /\ ~crashed /\ Loaded /\ last.ret.pc = "return"
  /\ last.ret.index.ntotal = MaxItems
  /\ prev.op = "clear_history"

\* C9: a clear whose target is absent returns normally and leaves the
\* persisted state as it was; a clear applied twice in a row changes nothing
\* the second time.
C9_ClearOfAbsentIsNoOp ==
  /\ (last.op = "clear_vector_store" /\ ~os_path_exists(last.before, VECTOR_STORE)) =>
       (~last.raised /\ fs = last.before)
  /\ (last.op = "clear_history" /\ ~os_path_exists(last.before, QUERY_EMBEDDINGS_CACHE)) =>
       (~last.raised /\ fs = last.before)
  /\ (last.op \in {"clear_vector_store", "clear_history"} /\ prev.op = last.op) =>
       (~last.raised /\ fs = last.before)

C9_Witness ==
  /\ last.op = "clear_history" /\ prev.op = "clear_history"
  /\ HasData(prev.before, QUERY_EMBEDDINGS_CACHE)
  /\ HasData(fs, ITEMS_PICKLE)
  /\ ~last.raised

====
